---- MODULE Spec2Model ----
(***************************************************************************)
(* IInheritable.h: settings objects that inherit settings from an ordered  *)
(* list of parents.  One class T deriving from IInheritable<T> is modelled *)
(* with one GETSET_SETTING property (Name) and one GETSET_NULLABLE_SETTING *)
(* property (Foreground).  The objects are numbered in allocation order.   *)
(***************************************************************************)
EXTENDS Integers, Sequences, FiniteSets

\* ---- bounds of the model ----
MaxNodes == 3      \* objects allocated in Spec
MaxEdges == 2      \* entries of all _parents vectors together in Spec
DeepNodes == 4     \* objects allocated in SpecName, SpecLinks and SpecUnchecked
DeepEdges == 3     \* entries of all _parents vectors together there
MaxValue == 2      \* the setting type is 1..MaxValue
MaxReference == 1  \* the references a client passes box 1..MaxReference
MaxPastEnd == 3    \* how far past size() an index passed in SpecUnchecked can be
ReadNodes == 2     \* objects the client of SpecRead allocates
ReadEdges == 2     \* entries of all _parents vectors together there

\* ---- value domains ----
\* Values are numbered from 1; 0 stands for "no value" in an optional and in
\* an IReference, and -1 for the result of a call that never returns.
Values == 1 .. MaxValue
nullopt == 0                      \* std::nullopt
nullptr == 0                      \* IReference<type>{ nullptr }
Overflow == -1                    \* unbounded recursion: no result
References == (1 .. MaxReference) \cup {nullptr}
NameDefault == 1                  \* type{ __VA_ARGS__ } of GETSET_SETTING(type, Name, ...)
ForegroundDefault == 1            \* IReference<type>{ __VA_ARGS__ } of the nullable property

VARIABLES
    allocated,    \* number of objects made so far; the objects are 1..allocated
    _parents,     \* _parents[n]: the vector of parents of object n
    _Name,        \* _Name[n]: std::optional<type> of the GETSET_SETTING property
    _Foreground,  \* _Foreground[n]: NullableSetting<type> of the nullable property
    fresh,        \* objects on which no setter and no InsertParent has run yet
    call          \* the call that returned last: its name, receiver and arguments

vars == <<allocated, _parents, _Name, _Foreground, fresh, call>>

Nodes == 1 .. allocated

\* (mutant) the flag starts out true
NullableSettingSet == [setting |-> nullptr, set |-> TRUE]

\* NullableSetting<T>{}: setting{ nullptr }, set{ false }
NullableSetting == [setting |-> nullptr, set |-> FALSE]

RECURSIVE SumLen(_, _)
SumLen(f, k) == IF k = 0 THEN 0 ELSE Len(f[k]) + SumLen(f, k - 1)
\* entries of all _parents vectors together
Edges == SumLen(_parents, allocated)

\* ---- std::vector<com_ptr<T>> ----
push_back(vec, p) == Append(vec, p)

\* (mutant) the new element lands one position early
insertBefore(vec, index, p) ==
    LET at == IF index > 0 THEN index - 1 ELSE 0
    IN  SubSeq(vec, 1, at) \o <<p>> \o SubSeq(vec, at + 1, Len(vec))

\* (mutant) the position is ignored and the element goes to the end
insertAtEnd(vec, index, p) == Append(vec, p)

\* vec.insert(vec.begin() + index, p), for index <= vec.size()
insert(vec, index, p) ==
    SubSeq(vec, 1, index) \o <<p>> \o SubSeq(vec, index + 1, Len(vec))

\* ---- GETSET_SETTING(type, Name, NameDefault) ----
\* (mutant) Has answers for the resolved value
HasNameInherited(n) == _Name[n] # nullopt \/ \E i \in DOMAIN _parents[n] : _Name[_parents[n][i]] # nullopt

HasName(n) == _Name[n] # nullopt

RECURSIVE _getNameImpl(_, _)
RECURSIVE _getNameLoop(_, _, _)

\* (mutant) a recursion that comes back to an object gives up without a value
_getNameImplCutOff(n, depth) ==
    IF depth > allocated THEN nullopt
    ELSE IF _Name[n] # nullopt THEN _Name[n]
    ELSE _getNameLoop(n, 1, depth)

\* (mutant) the parents are asked before the object's own value
_getNameImplParentsFirst(n, depth) ==
    IF depth > allocated THEN Overflow
    ELSE LET val == _getNameLoop(n, 1, depth)
         IN  IF val # nullopt THEN val ELSE _Name[n]

\* (mutant) the loop does not stop at the first parent that yields a value
_getNameLoopLastWins(n, i, depth) ==
    IF i > Len(_parents[n]) THEN nullopt
    ELSE LET val == _getNameImpl(_parents[n][i], depth + 1)
             rest == _getNameLoop(n, i + 1, depth)
         IN  IF rest # nullopt THEN rest ELSE val

\* (mutant) the loop asks the object itself again instead of the parent
_getNameLoopSelf(n, i, depth) ==
    IF i > Len(_parents[n]) THEN nullopt
    ELSE LET val == _getNameImpl(n, depth + 1)
         IN  IF val # nullopt THEN val ELSE _getNameLoop(n, i + 1, depth)

\* depth: frames of _getNameImpl on the stack, this one included.  With more
\* frames than objects some object is on the stack twice: the second frame
\* repeats the first, and the recursion never ends.
_getNameImpl(n, depth) ==
    IF depth > allocated THEN Overflow
    ELSE IF _Name[n] # nullopt THEN _Name[n]
    ELSE _getNameLoop(n, 1, depth)

\* for (auto parent : _parents), from the i-th parent on
_getNameLoop(n, i, depth) ==
    IF i > Len(_parents[n]) THEN nullopt
    ELSE LET val == _getNameImpl(_parents[n][i], depth + 1)
         IN  IF val # nullopt THEN val ELSE _getNameLoop(n, i + 1, depth)

\* type name() const
Name(n) ==
    LET val == _getNameImpl(n, 1)
    IN  IF val # nullopt THEN val ELSE NameDefault

\* ---- GETSET_NULLABLE_SETTING(type, Foreground, ForegroundDefault) ----
\* (mutant) Has also answers true for a value left in the slot
HasForegroundStored(n) == _Foreground[n].set \/ _Foreground[n].setting # nullptr

HasForeground(n) == _Foreground[n].set

RECURSIVE _getForegroundImpl(_, _)
RECURSIVE _getForegroundLoop(_, _, _)
\* (mutant) a parent that yields an explicit null counts as yielding nothing
_getForegroundLoopSkipsNull(n, i, depth) ==
    IF i > Len(_parents[n]) THEN [setting |-> nullptr, set |-> FALSE]
    ELSE LET val == _getForegroundImpl(_parents[n][i], depth + 1)
         IN  IF val.setting = Overflow THEN val
             ELSE IF val.set /\ val.setting # nullptr THEN val
             ELSE _getForegroundLoop(n, i + 1, depth)

\* (mutant) a value left in the object's own slot is returned as if it were set
_getForegroundImplStored(n, depth) ==
    IF depth > allocated THEN [setting |-> Overflow, set |-> FALSE]
    ELSE IF _Foreground[n].setting # nullptr THEN [setting |-> _Foreground[n].setting, set |-> TRUE]
    ELSE _getForegroundLoop(n, 1, depth)

\* (as in _getNameImpl; a call that never returns is [setting |-> Overflow])
_getForegroundImpl(n, depth) ==
    IF depth > allocated THEN [setting |-> Overflow, set |-> FALSE]
    ELSE IF HasForeground(n) THEN _Foreground[n]
    ELSE _getForegroundLoop(n, 1, depth)

\* for (auto parent : _parents), from the i-th parent on
_getForegroundLoop(n, i, depth) ==
    IF i > Len(_parents[n]) THEN [setting |-> nullptr, set |-> FALSE]
    ELSE LET val == _getForegroundImpl(_parents[n][i], depth + 1)
         IN  IF val.setting = Overflow THEN val
             ELSE IF val.set THEN val
             ELSE _getForegroundLoop(n, i + 1, depth)

\* IReference<type> name() const
Foreground(n) ==
    LET val == _getForegroundImpl(n, 1)
    IN  IF val.setting = Overflow THEN Overflow
        ELSE IF val.set THEN val.setting ELSE ForegroundDefault

\* ---- state after program start: no object exists ----
Init ==
    /\ allocated = 0
    /\ _parents = <<>>
    /\ _Name = <<>>
    /\ _Foreground = <<>>
    /\ fresh = {}
    /\ call = [op |-> "none", node |-> 0]

\* the members of the object that make_self<T>() adds, by default initializer
Constructed(members, init) ==
    [k \in 1 .. allocated + 1 |-> IF k <= allocated THEN members[k] ELSE init]

\* winrt::make_self<T>(), called by the client
make_self ==
    /\ allocated' = allocated + 1
    /\ _parents' = Constructed(_parents, <<>>)
    /\ _Name' = Constructed(_Name, nullopt)
    /\ _Foreground' = Constructed(_Foreground, NullableSetting)
    /\ fresh' = fresh \cup {allocated + 1}
    /\ call' = [op |-> "make_self", node |-> allocated + 1]

\* virtual void _FinalizeInheritance() {}
_FinalizeInheritance(members, child) == members

\* (mutant) the child takes over the parents of its creator
CreateChildSibling(n) ==
    LET child == allocated + 1
    IN  /\ allocated' = child
        /\ _parents' = Constructed(_parents, _parents[n])
        /\ _Name' = Constructed(_Name, nullopt)
        /\ _Foreground' = Constructed(_Foreground, NullableSetting)
        /\ fresh' = fresh
        /\ call' = [op |-> "CreateChild", node |-> n, child |-> child,
                    hooks |-> <<[on |-> child, seen |-> _parents[n]]>>]

\* (mutant) the creator keeps a reference to the child it made
CreateChildBackLink(n) ==
    LET child == allocated + 1
        linked == [Constructed(_parents, <<>>) EXCEPT ![child] = push_back(@, n),
                                                      ![n] = push_back(@, child)]
    IN  /\ allocated' = child
        /\ _parents' = linked
        /\ _Name' = _FinalizeInheritance(Constructed(_Name, nullopt), child)
        /\ _Foreground' = _FinalizeInheritance(Constructed(_Foreground, NullableSetting), child)
        /\ fresh' = fresh
        /\ call' = [op |-> "CreateChild", node |-> n, child |-> child,
                    hooks |-> <<[on |-> child, seen |-> <<n>>]>>]

\* (mutant) the hook runs on the child before the creator is linked
CreateChildHookFirst(n) ==
    LET child == allocated + 1
        made == Constructed(_parents, <<>>)
        linked == [made EXCEPT ![child] = push_back(@, n)]
    IN  /\ allocated' = child
        /\ _parents' = linked
        /\ _Name' = _FinalizeInheritance(Constructed(_Name, nullopt), child)
        /\ _Foreground' = _FinalizeInheritance(Constructed(_Foreground, NullableSetting), child)
        /\ fresh' = fresh
        /\ call' = [op |-> "CreateChild", node |-> n, child |-> child,
                    hooks |-> <<[on |-> child, seen |-> made[child]]>>]

\* com_ptr<T> CreateChild() const, on object n.  hooks lists the calls of
\* _FinalizeInheritance made before the return, each with the object it ran on
\* and the parent list that object had at that moment.
CreateChild(n) ==
    LET child == allocated + 1
        linked == [Constructed(_parents, <<>>) EXCEPT ![child] = push_back(@, n)]
    IN  /\ allocated' = child
        /\ _parents' = linked
        /\ _Name' = _FinalizeInheritance(Constructed(_Name, nullopt), child)
        /\ _Foreground' = _FinalizeInheritance(Constructed(_Foreground, NullableSetting), child)
        /\ fresh' = fresh
        /\ call' = [op |-> "CreateChild", node |-> n, child |-> child,
                    hooks |-> <<[on |-> child, seen |-> linked[child]]>>]

\* void InsertParent(com_ptr<T> parent), on object n
InsertParent(n, parent) ==
    /\ _parents' = [_parents EXCEPT ![n] = push_back(@, parent)]
    /\ fresh' = fresh \ {n}
    /\ call' = [op |-> "InsertParent", node |-> n, parent |-> parent,
                index |-> Len(_parents[n]), before |-> _parents[n], result |-> "returned",
                hooks |-> <<>>]
    /\ UNCHANGED <<allocated, _Name, _Foreground>>

\* what _parents.insert(_parents.begin() + index, parent) can leave behind when
\* index > size(): the iterator is past the end, the behaviour is undefined.
\* The vector holds one more element and any contents.
Clobbered(vec) == [1 .. Len(vec) + 1 -> Nodes]

\* void InsertParent(size_t index, com_ptr<T> parent), on object n
InsertParentAt(n, index, parent) ==
    LET this == [op |-> "InsertParentAt", node |-> n, parent |-> parent,
                 index |-> index, before |-> _parents[n], result |-> "returned",
                 hooks |-> <<>>]
    IN  /\ IF index <= Len(_parents[n])
           THEN /\ _parents' = [_parents EXCEPT ![n] = insert(@, index, parent)]
                /\ call' = this
           ELSE \/ /\ _parents' = _parents
                   /\ call' = [this EXCEPT !.result = "terminated"]
                \/ \E vec \in Clobbered(_parents[n]) :
                       /\ _parents' = [_parents EXCEPT ![n] = vec]
                       /\ call' = this
        /\ fresh' = fresh \ {n}
        /\ UNCHANGED <<allocated, _Name, _Foreground>>

\* (mutant) a value once stored is kept
SetNameOnce(n, value) ==
    /\ _Name' = [_Name EXCEPT ![n] = IF @ = nullopt THEN value ELSE @]
    /\ fresh' = fresh \ {n}
    /\ call' = [op |-> "SetName", node |-> n, value |-> value]
    /\ UNCHANGED <<allocated, _parents, _Foreground>>

\* void name(const type& value), on object n
SetName(n, value) ==
    /\ _Name' = [_Name EXCEPT ![n] = value]
    /\ fresh' = fresh \ {n}
    /\ call' = [op |-> "SetName", node |-> n, value |-> value]
    /\ UNCHANGED <<allocated, _parents, _Foreground>>

\* (mutant) Clear stores a value-initialized type instead of std::nullopt
ClearNameToDefault(n) ==
    /\ _Name' = [_Name EXCEPT ![n] = NameDefault]
    /\ call' = [op |-> "ClearName", node |-> n, was |-> _Name[n]]
    /\ UNCHANGED <<allocated, _parents, _Foreground, fresh>>

\* void Clear##name(), on object n
ClearName(n) ==
    /\ _Name' = [_Name EXCEPT ![n] = nullopt]
    /\ call' = [op |-> "ClearName", node |-> n, was |-> _Name[n]]
    /\ UNCHANGED <<allocated, _parents, _Foreground, fresh>>

\* (mutant) the setter only looks at whether the value differs
SetForegroundIfDifferent(n, value) ==
    /\ IF _Foreground[n].setting # value
       THEN _Foreground' = [_Foreground EXCEPT ![n] = [setting |-> value, set |-> TRUE]]
       ELSE _Foreground' = _Foreground
    /\ fresh' = fresh \ {n}
    /\ call' = [op |-> "SetForeground", node |-> n, value |-> value]
    /\ UNCHANGED <<allocated, _parents, _Name>>

\* void name(const IReference<type>& value), on object n.  A reference is
\* modelled by the value it boxes (nullptr: none), so != compares boxed values;
\* where the code would store another reference to an equal value, the model
\* keeps the slot, and the boxed value in the slot is the same either way.
SetForeground(n, value) ==
    /\ IF ~HasForeground(n) \/ _Foreground[n].setting # value
       THEN _Foreground' = [_Foreground EXCEPT ![n] = [setting |-> value, set |-> TRUE]]
       ELSE _Foreground' = _Foreground
    /\ fresh' = fresh \ {n}
    /\ call' = [op |-> "SetForeground", node |-> n, value |-> value]
    /\ UNCHANGED <<allocated, _parents, _Name>>

\* (mutant) Clear also clears the objects that have n as a parent
ClearForegroundCascade(n) ==
    /\ _Foreground' = [m \in Nodes |->
                          IF m = n \/ \E i \in DOMAIN _parents[m] : _parents[m][i] = n
                          THEN [_Foreground[m] EXCEPT !.set = FALSE]
                          ELSE _Foreground[m]]
    /\ call' = [op |-> "ClearForeground", node |-> n]
    /\ UNCHANGED <<allocated, _parents, _Name, fresh>>

\* void Clear##name() of the nullable property, on object n
ClearForeground(n) ==
    /\ _Foreground' = [_Foreground EXCEPT ![n].set = FALSE]
    /\ call' = [op |-> "ClearForeground", node |-> n]
    /\ UNCHANGED <<allocated, _parents, _Name, fresh>>

\* ---- the const members, called by the client; a call that does not return
\* has no next state ----
\* bool Has##name() const, on object n
CallHasName(n) ==
    /\ call' = [op |-> "HasName", node |-> n, result |-> HasName(n)]
    /\ UNCHANGED <<allocated, _parents, _Name, _Foreground, fresh>>

\* (mutant) the getter keeps the value it resolved in the object's own slot
CallNameCaching(n) ==
    /\ Name(n) # Overflow
    /\ _Name' = [_Name EXCEPT ![n] = Name(n)]
    /\ call' = [op |-> "Name", node |-> n, result |-> Name(n)]
    /\ UNCHANGED <<allocated, _parents, _Foreground, fresh>>

\* type name() const, on object n
CallName(n) ==
    /\ Name(n) # Overflow
    /\ call' = [op |-> "Name", node |-> n, result |-> Name(n)]
    /\ UNCHANGED <<allocated, _parents, _Name, _Foreground, fresh>>

\* bool Has##name() const of the nullable property, on object n
CallHasForeground(n) ==
    /\ call' = [op |-> "HasForeground", node |-> n, result |-> HasForeground(n)]
    /\ UNCHANGED <<allocated, _parents, _Name, _Foreground, fresh>>

\* IReference<type> name() const, on object n
CallForeground(n) ==
    /\ Foreground(n) # Overflow
    /\ call' = [op |-> "Foreground", node |-> n, result |-> Foreground(n)]
    /\ UNCHANGED <<allocated, _parents, _Name, _Foreground, fresh>>

\* ---- the clients ----
\* has the last call left the program in a defined state?
Defined == call.op = "InsertParentAt" => call.index <= Len(call.before)

\* every operation on both properties, by a client that keeps to MaxNodes
\* objects and MaxEdges parent entries and passes indexes within [0, size()]
Next ==
    \/ /\ allocated < MaxNodes
       /\ make_self
    \/ /\ allocated < MaxNodes
       /\ Edges < MaxEdges
       /\ \E n \in Nodes : CreateChild(n)
    \/ /\ Edges < MaxEdges
       /\ \E n \in Nodes, parent \in Nodes : InsertParent(n, parent)
    \/ /\ Edges < MaxEdges
       /\ \E n \in Nodes, parent \in Nodes :
              \E index \in 0 .. Len(_parents[n]) : InsertParentAt(n, index, parent)
    \/ \E n \in Nodes, value \in Values : SetName(n, value)
    \/ \E n \in Nodes : ClearName(n)
    \/ \E n \in Nodes, value \in References : SetForeground(n, value)
    \/ \E n \in Nodes : ClearForeground(n)

Spec == Init /\ [][Next]_vars

\* deeper graphs, built by appending parents, and the Name property alone
NextName ==
    \/ /\ allocated < DeepNodes
       /\ make_self
    \/ /\ Edges < DeepEdges
       /\ \E n \in Nodes, parent \in Nodes : InsertParent(n, parent)
    \/ \E n \in Nodes, value \in Values : SetName(n, value)
    \/ \E n \in Nodes : ClearName(n)

SpecName == Init /\ [][NextName]_vars

\* allocation and linking alone, indexes within [0, size()]
NextLinks ==
    \/ /\ allocated < DeepNodes
       /\ make_self
    \/ /\ allocated < DeepNodes
       /\ Edges < DeepEdges
       /\ \E n \in Nodes : CreateChild(n)
    \/ /\ Edges < DeepEdges
       /\ \E n \in Nodes, parent \in Nodes : InsertParent(n, parent)
    \/ /\ Edges < DeepEdges
       /\ \E n \in Nodes, parent \in Nodes :
              \E index \in 0 .. Len(_parents[n]) : InsertParentAt(n, index, parent)

SpecLinks == Init /\ [][NextLinks]_vars

\* allocation and linking by a client that also passes indexes past size();
\* nothing is defined after such a call, and the model stops there
NextUnchecked ==
    \/ /\ Defined
       /\ allocated < DeepNodes
       /\ make_self
    \/ /\ Defined
       /\ Edges < DeepEdges
       /\ \E n \in Nodes, parent \in Nodes : InsertParent(n, parent)
    \/ /\ Defined
       /\ Edges < DeepEdges
       /\ \E n \in Nodes, parent \in Nodes :
              \E index \in 0 .. Len(_parents[n]) + MaxPastEnd :
                  InsertParentAt(n, index, parent)

SpecUnchecked == Init /\ [][NextUnchecked]_vars

\* a client that also reads: Has and the getter of both properties between
\* the setters and InsertParent
NextRead ==
    \/ /\ allocated < ReadNodes
       /\ make_self
    \/ /\ Edges < ReadEdges
       /\ \E n \in Nodes, parent \in Nodes : InsertParent(n, parent)
    \/ \E n \in Nodes, value \in Values : SetName(n, value)
    \/ \E n \in Nodes : ClearName(n)
    \/ \E n \in Nodes, value \in References : SetForeground(n, value)
    \/ \E n \in Nodes : ClearForeground(n)
    \/ \E n \in Nodes : CallHasName(n)
    \/ \E n \in Nodes : CallName(n)
    \/ \E n \in Nodes : CallHasForeground(n)
    \/ \E n \in Nodes : CallForeground(n)

SpecRead == Init /\ [][NextRead]_vars

\* a client that links by CreateChild and by appending, sets Name to any value
\* and sets Foreground to the null reference only
NextFrame ==
    \/ /\ allocated < MaxNodes
       /\ make_self
    \/ /\ allocated < MaxNodes
       /\ Edges < MaxEdges
       /\ \E n \in Nodes : CreateChild(n)
    \/ /\ Edges < MaxEdges
       /\ \E n \in Nodes, parent \in Nodes : InsertParent(n, parent)
    \/ \E n \in Nodes, value \in Values : SetName(n, value)
    \/ \E n \in Nodes : ClearName(n)
    \/ \E n \in Nodes : SetForeground(n, nullptr)
    \/ \E n \in Nodes : ClearForeground(n)

SpecFrame == Init /\ [][NextFrame]_vars

\* a client that keeps the two properties side by side: every Set(v) and
\* Clear() of Name is followed at once by the same call on Foreground, with a
\* reference that boxes v.  Synced: no such second call is outstanding.
Synced == call.op \notin {"SetName", "ClearName"}

NextPair ==
    \/ /\ Synced
       /\ allocated < MaxNodes
       /\ make_self
    \/ /\ Synced
       /\ allocated < MaxNodes
       /\ Edges < MaxEdges
       /\ \E n \in Nodes : CreateChild(n)
    \/ /\ Synced
       /\ Edges < MaxEdges
       /\ \E n \in Nodes, parent \in Nodes : InsertParent(n, parent)
    \/ /\ Synced
       /\ Edges < MaxEdges
       /\ \E n \in Nodes, parent \in Nodes :
              \E index \in 0 .. Len(_parents[n]) : InsertParentAt(n, index, parent)
    \/ /\ Synced
       /\ \E n \in Nodes, value \in Values : SetName(n, value)
    \/ /\ call.op = "SetName"
       /\ SetForeground(call.node, call.value)
    \/ /\ Synced
       /\ \E n \in Nodes : ClearName(n)
    \/ /\ call.op = "ClearName"
       /\ ClearForeground(call.node)

SpecPair == Init /\ [][NextPair]_vars

\* ---------------------------------------------------------------------------
\* The resolution order, stated without the getter's recursion
\* ---------------------------------------------------------------------------
ParentsOf(n) == {_parents[n][i] : i \in DOMAIN _parents[n]}

RECURSIVE Closure(_, _)
Closure(S, k) ==
    IF k = 0 THEN S ELSE Closure(S \cup UNION {ParentsOf(m) : m \in S}, k - 1)

\* the objects reachable from n over one or more parent links
Ancestors(n) == Closure(ParentsOf(n), allocated)

\* no cycle of parent links can be reached from n
Acyclic(n) == \A m \in {n} \cup Ancestors(n) : m \notin Ancestors(m)

\* the depth-first, left-to-right pre-order walk from n (n acyclic)
RECURSIVE Walk(_)
RECURSIVE WalkParents(_, _)
Walk(n) == <<n>> \o WalkParents(n, 1)
WalkParents(n, i) ==
    IF i > Len(_parents[n]) THEN <<>>
    ELSE Walk(_parents[n][i]) \o WalkParents(n, i + 1)

\* the walks from the objects of a parent list, one after the other
RECURSIVE WalkAll(_)
WalkAll(list) ==
    IF list = <<>> THEN <<>> ELSE Walk(Head(list)) \o WalkAll(Tail(list))

\* does the walk from p meet an object with an explicit Name?
YieldsName(p) == \E m \in {p} \cup Ancestors(p) : HasName(m)

\* the resolution of p returns without a value: nothing reachable from p holds
\* an explicit Name and no cycle is reachable from p
Barren(p) == Acyclic(p) /\ ~YieldsName(p)

\* the parent of the unset object n at which the parent loop stops going on to
\* the next parent: the first one that is not Barren (0: there is none)
Descent(n) ==
    LET live == {i \in DOMAIN _parents[n] : ~Barren(_parents[n][i])}
    IN  IF live = {} THEN 0 ELSE _parents[n][CHOOSE i \in live : \A j \in live : i <= j]

\* following Descent from n for more than k steps meets no object with an
\* explicit Name
RECURSIVE Descends(_, _)
Descends(n, k) ==
    IF HasName(n) \/ Descent(n) = 0 THEN FALSE
    ELSE IF k = 0 THEN TRUE
    ELSE Descends(Descent(n), k - 1)

\* the resolution from n comes back to an object it is still resolving
Diverges(n) == Descends(n, allocated)

\* the explicit Name of the first object of walk that has one, else the default
FirstName(walk) ==
    LET with == {i \in DOMAIN walk : _Name[walk[i]] # nullopt}
    IN  IF with = {} THEN NameDefault
        ELSE _Name[walk[CHOOSE i \in with : \A j \in with : i <= j]]

\* the same for Foreground: the first object whose flag is set decides
FirstForeground(walk) ==
    LET with == {i \in DOMAIN walk : _Foreground[walk[i]].set}
    IN  IF with = {} THEN ForegroundDefault
        ELSE _Foreground[walk[CHOOSE i \in with : \A j \in with : i <= j]].setting

\* FirstForeground over other slot contents than the current ones
FirstForegroundIn(slots, walk) ==
    LET with == {i \in DOMAIN walk : slots[walk[i]].set}
    IN  IF with = {} THEN ForegroundDefault
        ELSE slots[walk[CHOOSE i \in with : \A j \in with : i <= j]].setting

\* ---------------------------------------------------------------------------
\* Claims
\* ---------------------------------------------------------------------------

\* C1: on an acyclic parent graph Name() of n is the explicit value of the first
\* object that has one in the depth-first, left-to-right pre-order walk from n,
\* and the declared default if none has; with parents <<a, b, ...>> and n unset,
\* a value found in a's chain is the result whatever b holds.
C1_DepthFirstFirstWins ==
    \A n \in Nodes :
        Acyclic(n) =>
            /\ Name(n) = FirstName(Walk(n))
            /\ (/\ ~HasName(n)
                /\ Len(_parents[n]) >= 2
                /\ \E m \in {_parents[n][1]} \cup Ancestors(_parents[n][1]) : HasName(m))
               => Name(n) = Name(_parents[n][1])

\* C1 witness: n has parents <<a, b>>, a has the one parent r, only r and b hold
\* values, the two differ, and n resolves to the value of r.
C1_Witness ==
    \E n \in Nodes, a \in Nodes, b \in Nodes, r \in Nodes :
        /\ Cardinality({n, a, b, r}) = 4
        /\ _parents[n] = <<a, b>> /\ _parents[a] = <<r>>
        /\ _parents[b] = <<>> /\ _parents[r] = <<>>
        /\ ~HasName(n) /\ ~HasName(a) /\ HasName(r) /\ HasName(b)
        /\ _Name[r] # _Name[b]
        /\ Name(n) = _Name[r]

\* C2: right after Set(v) on n, for either property and any v, Has() of n is
\* true and the getter of n returns v, whatever the parents hold.
C2_SetThenGet ==
    /\ call.op = "SetName" =>
           HasName(call.node) /\ Name(call.node) = call.value
    /\ call.op = "SetForeground" =>
           HasForeground(call.node) /\ Foreground(call.node) = call.value

\* C2 witness: Set(v) has run on an object with two parents that both hold
\* another value; v is the declared default.
C2_Witness ==
    /\ call.op = "SetName" /\ call.value = NameDefault
    /\ Len(_parents[call.node]) = 2
    /\ \A i \in 1 .. 2 : /\ HasName(_parents[call.node][i])
                         /\ _Name[_parents[call.node][i]] # call.value
    /\ Name(call.node) = call.value

\* C3: right after Clear() on n, whether or not n held an explicit value set
\* before, Has() of n is false and the getter returns what the walk over the
\* ancestors of n alone yields: the first explicit ancestor value, or the
\* default.
C3_ClearReResolves ==
    /\ call.op = "ClearName" =>
           /\ ~HasName(call.node)
           /\ Acyclic(call.node) => Name(call.node) = FirstName(Tail(Walk(call.node)))
    /\ call.op = "ClearForeground" =>
           /\ ~HasForeground(call.node)
           /\ Acyclic(call.node) =>
                  Foreground(call.node) = FirstForeground(Tail(Walk(call.node)))

\* C3 witness: Clear() has run on an object that held the explicit value v; its
\* parent is unset, its grandparent holds another value that is not the
\* default, and that is what the getter returns now.
C3_Witness ==
    /\ call.op = "ClearName" /\ call.was # nullopt
    /\ Len(_parents[call.node]) = 1
    /\ LET mid == _parents[call.node][1]
       IN  /\ mid # call.node /\ ~HasName(mid)
           /\ Len(_parents[mid]) = 1
           /\ HasName(_parents[mid][1])
           /\ _Name[_parents[mid][1]] \notin {call.was, NameDefault}
           /\ Name(call.node) = _Name[_parents[mid][1]]

\* C4: on an object on which no setter and no InsertParent has run, Has() is
\* false and the getter returns the declared default, for both properties.
C4_FreshIsDefault ==
    \A n \in fresh :
        /\ ~HasName(n) /\ Name(n) = NameDefault
        /\ ~HasForeground(n) /\ Foreground(n) = ForegroundDefault

\* C4 witness: a fresh object next to one that holds explicit values for both
\* properties, neither of them the default.
C4_Witness ==
    \E n \in fresh, m \in Nodes :
        /\ HasName(m) /\ _Name[m] # NameDefault
        /\ HasForeground(m) /\ _Foreground[m].setting # ForegroundDefault
        /\ Name(n) = NameDefault /\ Foreground(n) = ForegroundDefault

\* C5: in a chain leaf -> mid -> root with leaf unset and root set, Name() of
\* leaf is the value of mid when mid is set and the value of root when it is
\* not; in particular right after Set(y) on mid it is y, and right after
\* Clear() on mid it is the value of root again.
C5_NearerAncestorWins ==
    \A leaf \in Nodes, mid \in Nodes, root \in Nodes :
        (/\ Cardinality({leaf, mid, root}) = 3
         /\ _parents[leaf] = <<mid>> /\ _parents[mid] = <<root>> /\ _parents[root] = <<>>
         /\ ~HasName(leaf) /\ HasName(root))
        => /\ Name(leaf) = IF HasName(mid) THEN _Name[mid] ELSE _Name[root]
           /\ (call.op = "SetName" /\ call.node = mid) => Name(leaf) = call.value
           /\ (call.op = "ClearName" /\ call.node = mid) => Name(leaf) = _Name[root]

\* C5 witness: mid held y, has just been cleared, and leaf reads the value of
\* root, which is not y.
C5_Witness ==
    \E leaf \in Nodes, mid \in Nodes, root \in Nodes :
        /\ Cardinality({leaf, mid, root}) = 3
        /\ _parents[leaf] = <<mid>> /\ _parents[mid] = <<root>> /\ _parents[root] = <<>>
        /\ ~HasName(leaf) /\ HasName(root)
        /\ call.op = "ClearName" /\ call.node = mid
        /\ call.was \notin {nullopt, _Name[root]}
        /\ Name(leaf) = _Name[root]

\* C6: right after CreateChild() on n, the new object has the parent list <<n>>,
\* Has() is false on it for both properties, and both getters return on it
\* what they return on n.
C6_ChildOfCreator ==
    call.op = "CreateChild" =>
        /\ call.child = allocated
        /\ _parents[call.child] = <<call.node>>
        /\ ~HasName(call.child) /\ ~HasForeground(call.child)
        /\ Name(call.child) = Name(call.node)
        /\ Foreground(call.child) = Foreground(call.node)

\* C6 witness: the creator inherits a Name from its own parent and holds an
\* explicit null Foreground; the child returns both.
C6_Witness ==
    /\ call.op = "CreateChild"
    /\ ~HasName(call.node) /\ Name(call.node) # NameDefault
    /\ _Foreground[call.node] = [setting |-> nullptr, set |-> TRUE]
    /\ Name(call.child) = Name(call.node)
    /\ Foreground(call.child) = nullptr

\* C7: InsertParent(index, parent) with index > size() fails with an
\* out-of-range error and leaves the parent list as it was.
C7_OutOfRangeRejected ==
    (call.op = "InsertParentAt" /\ call.index > Len(call.before)) =>
        /\ call.result = "out_of_range"
        /\ _parents[call.node] = call.before

\* C8: right after Set(v) of the nullable property on n, for any v including
\* null and whatever the slot held before, the slot is (v, set): Has() is true
\* and the getter returns v, null included; a slot whose flag is false reports
\* Has() false.
C8_NullableSetStores ==
    /\ call.op = "SetForeground" =>
           /\ _Foreground[call.node] = [setting |-> call.value, set |-> TRUE]
           /\ HasForeground(call.node)
           /\ Foreground(call.node) = call.value
    /\ \A n \in Nodes : HasForeground(n) = (_Foreground[n].set = TRUE)

\* C8 witness: Set(null) has run; the object's parent holds an explicit
\* non-null value, the default is not null, and the getter returns null.
C8_Witness ==
    /\ call.op = "SetForeground" /\ call.value = nullptr
    /\ ForegroundDefault # nullptr
    /\ Len(_parents[call.node]) = 1
    /\ _Foreground[_parents[call.node][1]] = [setting |-> ForegroundDefault, set |-> TRUE]
    /\ HasForeground(call.node)
    /\ Foreground(call.node) = nullptr

\* C9: a call of either InsertParent overload with an index within [0, size()]
\* (for the one-argument overload the index is size()) leaves a list one longer,
\* with parent at position index, the elements before index where they were and
\* the elements from index on one position later; InsertParent(size(), parent)
\* and InsertParent(parent) leave the same list.
C9_InsertPosition ==
    (call.op \in {"InsertParent", "InsertParentAt"} /\ call.index <= Len(call.before)) =>
        LET old == call.before
            new == _parents[call.node]
        IN  /\ Len(new) = Len(old) + 1
            /\ new[call.index + 1] = call.parent
            /\ \A j \in 1 .. Len(old) :
                   IF j <= call.index THEN new[j] = old[j] ELSE new[j + 1] = old[j]
            /\ call.op = "InsertParent" => call.index = Len(old)
            /\ call.index = Len(old) => new = push_back(old, call.parent)
            /\ call.op = "InsertParent" => new = insert(old, Len(old), call.parent)

\* C9 witness: InsertParent(1, p) has run on a list <<a, b>> of two different
\* parents, and p is now between them.
C9_Witness ==
    /\ call.op = "InsertParentAt" /\ call.index = 1
    /\ Len(call.before) = 2 /\ call.before[1] # call.before[2]
    /\ call.parent \notin {call.before[1], call.before[2]}
    /\ _parents[call.node] = <<call.before[1], call.parent, call.before[2]>>

\* C10: over every step, Has() of n for a property is true after the step if
\* the step is a Set of that property on n, false if it is a Clear of that
\* property on n or n is new, and what it was before otherwise: Has() is true
\* exactly when the most recent Set/Clear on n itself was a Set.
C10_HasIsOwnSlot ==
    [][\A n \in 1 .. allocated' :
          /\ HasName(n)' =
                 IF call'.node = n /\ call'.op = "SetName" THEN TRUE
                 ELSE IF call'.node = n /\ call'.op = "ClearName" THEN FALSE
                 ELSE IF n <= allocated THEN HasName(n) ELSE FALSE
          /\ HasForeground(n)' =
                 IF call'.node = n /\ call'.op = "SetForeground" THEN TRUE
                 ELSE IF call'.node = n /\ call'.op = "ClearForeground" THEN FALSE
                 ELSE IF n <= allocated THEN HasForeground(n) ELSE FALSE
      ]_vars

\* C10 witness: an ancestor has just been set; n, never set itself, returns
\* the ancestor's values for both properties and reports Has() false for both.
C10_Witness ==
    \E n \in Nodes :
        /\ call.op = "SetForeground" /\ call.value = nullptr
        /\ call.node \in Ancestors(n) /\ call.node # n
        /\ ~HasName(n) /\ ~HasForeground(n)
        /\ HasName(call.node) /\ _Name[call.node] # NameDefault
        /\ Name(n) = _Name[call.node]
        /\ Foreground(n) = nullptr
\* C11: on an acyclic parent graph both getters return: the result is a value
\* of the property's type, never the mark of an unbounded recursion, and it is
\* the declared default when neither n nor any ancestor of n holds an explicit
\* value.
C11_GetterReturns ==
    \A n \in Nodes :
        Acyclic(n) =>
            /\ Name(n) \in Values
            /\ Foreground(n) \in References \cup {ForegroundDefault}
            /\ (\A m \in {n} \cup Ancestors(n) : ~HasName(m)) => Name(n) = NameDefault
            /\ (\A m \in {n} \cup Ancestors(n) : ~HasForeground(m))
               => Foreground(n) = ForegroundDefault

\* C11 witness: an acyclic chain n -> mid -> root of three objects none of which
\* holds an explicit value; both getters of n return the default.
C11_Witness ==
    \E n \in Nodes :
        /\ Acyclic(n)
        /\ Len(_parents[n]) = 1
        /\ Len(_parents[_parents[n][1]]) = 1
        /\ Cardinality({n} \cup Ancestors(n)) = 3
        /\ \A m \in {n} \cup Ancestors(n) : ~HasName(m) /\ ~HasForeground(m)
        /\ Name(n) = NameDefault /\ Foreground(n) = ForegroundDefault
\* C12 (as stated): the parents of an unset object are consulted in the order
\* in which they were inserted, whichever overload inserted them: the parent
\* inserted by the last call is consulted after every parent that was already
\* there, so when one of those yields an explicit value the result is the value
\* of one of those.
C12_ChronologicalPriority ==
    (/\ call.op \in {"InsertParent", "InsertParentAt"}
     /\ ~HasName(call.node)
     /\ Acyclic(call.node)
     /\ \E i \in DOMAIN call.before : YieldsName(call.before[i]))
    => Name(call.node) \in
           {Name(call.before[i]) : i \in {j \in DOMAIN call.before : YieldsName(call.before[j])}}

\* C12 (amended): the parents of an unset object are consulted in the order of
\* their positions in the parent list.  InsertParent(parent) puts the parent
\* last; InsertParent(index, parent) puts it before the parents that were at
\* positions index and up, so it is consulted after the parents at positions
\* below index and before the others.
C12_ListPositionPriority ==
    (/\ call.op \in {"InsertParent", "InsertParentAt"}
     /\ ~HasName(call.node)
     /\ Acyclic(call.node))
    => LET order == SubSeq(call.before, 1, call.index) \o <<call.parent>>
                    \o SubSeq(call.before, call.index + 1, Len(call.before))
       IN  /\ call.op = "InsertParent" => call.index = Len(call.before)
           /\ Name(call.node) = FirstName(WalkAll(order))

\* C12 witness: InsertParent(0, p2) has run on an unset object whose one parent
\* p1 holds an explicit value; p2 holds another, and the getter returns the
\* value of p2, the parent inserted last.
C12_Witness ==
    /\ call.op = "InsertParentAt" /\ call.index = 0
    /\ Len(call.before) = 1
    /\ call.parent \notin {call.node, call.before[1]}
    /\ call.before[1] # call.node
    /\ ~HasName(call.node)
    /\ HasName(call.before[1]) /\ HasName(call.parent)
    /\ _Name[call.before[1]] # _Name[call.parent]
    /\ Acyclic(call.node)
    /\ Name(call.node) = _Name[call.parent]
\* C13 (as stated): once a cycle of parent links can be reached from n, the
\* resolution of Name on n does not terminate.
C13_CycleNeverReturns ==
    \A n \in Nodes : ~Acyclic(n) => Name(n) = Overflow

\* C13 (amended): the resolution of Name on n does not terminate exactly when
\* the walk from n, which stops at the first object with an explicit value and
\* passes over the parents under which nothing is set, comes back to an object
\* it is still resolving; that needs a cycle reachable from n, but an object on
\* or above a cycle still resolves when it holds a value itself or the walk
\* finds one before it closes the cycle.
C13_DivergesOnLiveCycle ==
    \A n \in Nodes :
        /\ (Name(n) = Overflow) <=> Diverges(n)
        /\ Diverges(n) => ~Acyclic(n)
        /\ (~Acyclic(n) /\ ~HasName(n) /\ \A m \in Ancestors(n) : ~HasName(m))
           => Name(n) = Overflow

\* C13 witness: c is its own parent and unset, so its resolution does not
\* terminate; m is unset with parents <<v, c>>, v holds a value, and the
\* resolution on m returns it although m reaches the cycle.
C13_Witness ==
    \E m \in Nodes, v \in Nodes, c \in Nodes :
        /\ Cardinality({m, v, c}) = 3
        /\ _parents[m] = <<v, c>> /\ _parents[c] = <<c>> /\ _parents[v] = <<>>
        /\ ~HasName(m) /\ ~HasName(c) /\ HasName(v)
        /\ ~Acyclic(m)
        /\ Name(c) = Overflow /\ Diverges(c)
        /\ Name(m) = _Name[v] /\ ~Diverges(m)
\* C14: Has() and the getter, of either property and on any object, change no
\* slot of any object and no parent list, so every later Has() and getter
\* returns what it returned before; a getter repeated right after itself
\* returns the same value.
C14_ReadOnly ==
    [][call'.op \in {"HasName", "Name", "HasForeground", "Foreground"} =>
          /\ UNCHANGED <<allocated, _parents, _Name, _Foreground>>
          /\ \A m \in Nodes : /\ HasName(m)' = HasName(m)
                              /\ Name(m)' = Name(m)
                              /\ HasForeground(m)' = HasForeground(m)
                              /\ Foreground(m)' = Foreground(m)
          /\ (call.op = call'.op /\ call.node = call'.node) => call'.result = call.result
      ]_vars

\* C14 witness: the getter of Name has returned the value that the unset
\* object inherits from its one parent; the object is still unset and the
\* getter still yields that value.
C14_Witness ==
    /\ call.op = "Name"
    /\ ~HasName(call.node)
    /\ Len(_parents[call.node]) = 1
    /\ HasName(_parents[call.node][1])
    /\ call.result = _Name[_parents[call.node][1]]
    /\ call.result # NameDefault
    /\ Name(call.node) = call.result
\* C15: Set(v) and Clear() of a property on n change the slot of n for that
\* property and nothing else: every other slot and every parent list stays, so
\* Has() of every other object, the getter of every object that is neither n
\* nor a descendant of n, and Has() and the getter of the other property on
\* every object return what they returned before.
C15_SetClearFrame ==
    [][call'.op \in {"SetName", "ClearName", "SetForeground", "ClearForeground"} =>
          LET n == call'.node
              ofName == call'.op \in {"SetName", "ClearName"}
          IN  /\ UNCHANGED <<allocated, _parents>>
              /\ \A m \in Nodes \ {n} :
                     /\ _Name'[m] = _Name[m] /\ _Foreground'[m] = _Foreground[m]
                     /\ HasName(m)' = HasName(m)
                     /\ HasForeground(m)' = HasForeground(m)
              /\ IF ofName
                 THEN /\ _Foreground' = _Foreground
                      /\ \A m \in Nodes : /\ HasForeground(m)' = HasForeground(m)
                                          /\ Foreground(m)' = Foreground(m)
                      /\ \A m \in Nodes \ {n} : n \notin Ancestors(m) => Name(m)' = Name(m)
                 ELSE /\ _Name' = _Name
                      /\ \A m \in Nodes : /\ HasName(m)' = HasName(m)
                                          /\ Name(m)' = Name(m)
                      /\ \A m \in Nodes \ {n} :
                             n \notin Ancestors(m) => Foreground(m)' = Foreground(m)
      ]_vars

\* C15 witness: Set(v) of Name has run on n, which has the parent p and is the
\* parent of c; p holds another value and still returns it, c is unset and
\* inherits v, and the Foreground slots are as they were: p is set to null, the
\* others are unset and inherit it.
C15_Witness ==
    /\ call.op = "SetName"
    /\ Len(_parents[call.node]) = 1
    /\ LET p == _parents[call.node][1]
       IN  /\ p # call.node
           /\ HasName(p) /\ _Name[p] # call.value /\ Name(p) = _Name[p]
           /\ \E c \in Nodes \ {call.node, p} :
                  /\ _parents[c] = <<call.node>>
                  /\ ~HasName(c) /\ Name(c) = call.value
    /\ Name(call.node) = call.value
    /\ \A m \in Nodes : /\ HasForeground(m) <=> m = _parents[call.node][1]
                        /\ Foreground(m) = nullptr
\* C16: CreateChild() runs the finalization hook exactly once, on the new
\* child, when the child's parent list is already <<creator>>, and before it
\* returns the child; neither InsertParent overload runs the hook.
C16_HookOnceAfterLink ==
    /\ call.op = "CreateChild" =>
           /\ Len(call.hooks) = 1
           /\ call.hooks[1].on = call.child
           /\ call.hooks[1].seen = <<call.node>>
           /\ _parents[call.child] = call.hooks[1].seen
    /\ call.op \in {"InsertParent", "InsertParentAt"} => call.hooks = <<>>

\* C16 witness: CreateChild() has run on a creator that has two parents of its
\* own; the one hook call ran on the child and saw the parent list <<creator>>.
C16_Witness ==
    /\ call.op = "CreateChild"
    /\ Len(_parents[call.node]) = 2
    /\ call.hooks = <<[on |-> call.child, seen |-> <<call.node>>]>>
\* C17: for the nullable property on an acyclic graph, the first object of the
\* walk from an unset n whose flag is set decides the result, also when it is
\* set to null: the getter then returns null although the default is not null
\* and whatever the later objects of the walk hold; the default is returned
\* only when no object of the walk is set.
C17_ExplicitNullInherited ==
    \A n \in Nodes :
        (Acyclic(n) /\ ~HasForeground(n)) =>
            LET walk == Walk(n)
                with == {i \in DOMAIN walk : HasForeground(walk[i])}
                first == walk[CHOOSE i \in with : \A j \in with : i <= j]
            IN  /\ ForegroundDefault # nullptr
                /\ with = {} => Foreground(n) = ForegroundDefault
                /\ with # {} => Foreground(n) = _Foreground[first].setting
                /\ (with # {} /\ _Foreground[first].setting = nullptr)
                   => Foreground(n) = nullptr

\* C17 witness: n is unset with parents <<a, b>>, a is set to null and b to a
\* value that is not null; the getter of n returns null.
C17_Witness ==
    \E n \in Nodes, a \in Nodes, b \in Nodes :
        /\ Cardinality({n, a, b}) = 3
        /\ _parents[n] = <<a, b>>
        /\ ~HasForeground(n)
        /\ _Foreground[a] = [setting |-> nullptr, set |-> TRUE]
        /\ HasForeground(b) /\ _Foreground[b].setting # nullptr
        /\ Foreground(n) = nullptr
\* C18: right after Clear() of the nullable property on n, Has() of n is false,
\* and on n and on every descendant of n (acyclic) the getter returns what the
\* walk yields when the slot of n is the one of an object that was never set:
\* the value that Clear() left in the slot plays no part.
C18_StaleValueUnreachable ==
    call.op = "ClearForeground" =>
        LET n == call.node
            never == [_Foreground EXCEPT ![n] = NullableSetting]
        IN  /\ ~HasForeground(n)
            /\ \A m \in Nodes :
                   (Acyclic(m) /\ (m = n \/ n \in Ancestors(m)))
                   => Foreground(m) = FirstForegroundIn(never, Walk(m))

\* C18 witness: Clear() has run on n, whose slot still holds the value 1 set
\* before; the parent of n is set to null, and n and its unset child both
\* return null.
C18_Witness ==
    /\ call.op = "ClearForeground"
    /\ _Foreground[call.node] = [setting |-> 1, set |-> FALSE]
    /\ Len(_parents[call.node]) = 1
    /\ _Foreground[_parents[call.node][1]] = [setting |-> nullptr, set |-> TRUE]
    /\ Foreground(call.node) = nullptr
    /\ \E m \in Nodes \ {call.node, _parents[call.node][1]} :
           /\ _parents[m] = <<call.node>>
           /\ ~HasForeground(m)
           /\ Foreground(m) = nullptr
\* C19: CreateChild() on n changes nothing that existed: the parent list and
\* both slots of n and of every other object are as before, and so are their
\* getters; no parent list, that of n included, holds the new child, and the
\* only link made is from the child to n.
C19_CreatorUnchanged ==
    [][call'.op = "CreateChild" =>
          /\ allocated' = allocated + 1
          /\ call'.child = allocated'
          /\ \A m \in Nodes :
                 /\ _parents'[m] = _parents[m]
                 /\ _Name'[m] = _Name[m]
                 /\ _Foreground'[m] = _Foreground[m]
                 /\ Name(m)' = Name(m)
                 /\ Foreground(m)' = Foreground(m)
          /\ \A m \in 1 .. allocated' :
                 \A i \in DOMAIN _parents'[m] : _parents'[m][i] # allocated'
          /\ _parents'[allocated'] = <<call'.node>>
      ]_vars

\* C19 witness: CreateChild() has run on a creator that has a parent and holds
\* explicit values of both properties; the child is linked to the creator and
\* no parent list holds the child.
C19_Witness ==
    /\ call.op = "CreateChild"
    /\ Len(_parents[call.node]) = 1
    /\ HasName(call.node) /\ HasForeground(call.node)
    /\ _parents[call.child] = <<call.node>>
    /\ \A m \in Nodes : call.child \notin ParentsOf(m)
\* C20: with equal defaults and the same calls made on both properties, with
\* values that are not null, the two variants agree on every object after every
\* step: Has() answers the same, the stored-value test of the one slot is the
\* flag of the other, and the getters return the same value or both do not
\* return.
C20_VariantsAgree ==
    Synced =>
        /\ NameDefault = ForegroundDefault
        /\ \A n \in Nodes :
               /\ HasName(n) = HasForeground(n)
               /\ (_Name[n] # nullopt) = _Foreground[n].set
               /\ _Foreground[n].set => _Foreground[n].setting = _Name[n]
               /\ Name(n) = Foreground(n)

\* C20 witness: Clear() has run on both properties of n, which had been set
\* and whose nullable slot still holds the old value; the parent of n holds
\* another value, not the default, and both getters of n return it.
C20_Witness ==
    /\ call.op = "ClearForeground"
    /\ _Foreground[call.node].setting # nullptr
    /\ _Name[call.node] = nullopt
    /\ Len(_parents[call.node]) = 1
    /\ LET p == _parents[call.node][1]
       IN  /\ p # call.node
           /\ HasName(p) /\ HasForeground(p)
           /\ _Name[p] \notin {NameDefault, _Foreground[call.node].setting}
           /\ Name(call.node) = _Name[p]
           /\ Foreground(call.node) = _Name[p]
====
